---- MODULE Spec2Model ----
(***************************************************************************)
(* FuturesUnordered (src/stream/futures_unordered.rs): the owner list of   *)
(* all nodes, the intrusive MPSC readiness queue, the per-node state word  *)
(* (reference count + QUEUED flag) and the notifier handles.               *)
(*                                                                         *)
(* One consumer thread owns the collection (push / poll / drop).  Any      *)
(* number of other threads hold notifier handles and run notify, ref_inc   *)
(* and ref_dec.  Every access to an atomic is one step of the model; the   *)
(* consumer-local work that follows an atomic access is part of that step. *)
(***************************************************************************)
EXTENDS Integers, FiniteSets, Sequences, TLC

(* ------------------------------ bounds --------------------------------- *)
\* number of nodes push may allocate in one run
MaxNodes == 2
\* number of threads that may be inside notify at the same time
MaxProd == 2
\* number of notifier handles that may be outstanding at the same time
MaxHandles == 2
\* width in bits of the usize state word (scaled down from 64)
W == 4

(* ----------------------------- constants ------------------------------- *)
Null == -1
Stub == 0
Nodes == 1 .. MaxNodes
Cells == Nodes \cup {Stub}
Prods == 1 .. MaxProd
\* the value the computation in node n produces (two computations may produce the same)
ValueOf(n) == 1 + (n % 2)
Values == {ValueOf(n) : n \in Nodes}

USIZE_MAX == 2 ^ W - 1
MAX_REFS == USIZE_MAX \div 2
QUEUED == USIZE_MAX - (USIZE_MAX \div 2)

(* -------------------- arithmetic on the state word --------------------- *)
\* prev & QUEUED == QUEUED
IsQueued(s) == (s \div QUEUED) % 2 = 1
\* s & !QUEUED
Refs(s) == s - (IF IsQueued(s) THEN QUEUED ELSE 0)
\* a fetch_or(QUEUED) that leaves the word as it is
fetch_or_QUEUED_noop(s) == s

\* the value stored by state.fetch_or(QUEUED)
fetch_or_QUEUED(s) == IF IsQueued(s) THEN s ELSE s + QUEUED
\* a clear of QUEUED that leaves the word as it is
fetch_and_not_QUEUED_noop(s) == s

\* the value stored by state.fetch_and(!QUEUED)
fetch_and_not_QUEUED(s) == Refs(s)
\* the value stored by fetch_add(1): wrapping
fetch_add_1(s) == (s + 1) % (USIZE_MAX + 1)
\* the value stored by fetch_sub(1): wrapping
fetch_sub_1(s) == (s + USIZE_MAX) % (USIZE_MAX + 1)

(* ------------------------------- state --------------------------------- *)
VARIABLES
  mem,             \* per cell: "unalloc", "live", "freed", "double_freed"
  future,          \* Node.future: "none" or the computation: "pending", "complete"
  next_all,        \* Node.next_all
  prev_all,        \* Node.prev_all
  next_readiness,  \* Node.next_readiness
  state,           \* Node.state
  head_all,        \* FuturesUnordered.head_all
  len,             \* FuturesUnordered.len
  tail_readiness,  \* FuturesUnordered.tail_readiness
  head_readiness,  \* Inner.head_readiness
  ref_count,       \* Inner.ref_count
  inner_live,      \* FALSE once drop_in_place ran on Inner
  parent,          \* Inner.parent: "none" or "task" once park registered it
  woken,           \* the parent task has been notified and not yet re-polled
  handles,         \* per node: outstanding notifier handles (Task values)
  ppc,             \* per producer: "idle", "swap", "link", "signal"
  pnode,           \* per producer: the node being notified
  pprev,           \* per producer: prev returned by head_readiness.swap
  cpc,             \* consumer: position inside push / poll / drop
  c_node,          \* consumer: node in hand
  c_tail,          \* consumer: local tail of dequeue
  c_prev,          \* consumer: prev of its own enqueue; prev of release_node
  c_ret,           \* consumer: the result poll is about to return
  lastRet,         \* what the last completed poll() returned
  yielded,         \* per node: how often poll() returned its value or error
  retCount,        \* per value: how often poll() returned it
  drops,           \* per node: how often its payload was dropped
  enqSince,        \* per node: enqueues since the consumer last cleared QUEUED
  callsSince,      \* per node: notify calls since then (saturating at 2)
  lastDeq,         \* what the last call of dequeue returned: "Empty", "Inconsistent", "Data"
  renotified,      \* nodes notified while being polled in this poll() call whose
                   \* next poll has not finished
  undisturbed,     \* in this poll() call: a node with a complete computation was
                   \* linked behind the tail at entry and no producer has been
                   \* between its swap and its link store since
  freedBy,         \* per node: who freed it: "none", "consumer" or "handle" (ref_dec)
  fault,           \* "none", or the abort / failed assertion that stopped the process
  uaf              \* a freed cell was accessed

nodeVars == <<mem, future, next_all, prev_all, next_readiness, state>>
collVars == <<head_all, len, tail_readiness>>
innerVars == <<head_readiness, ref_count, inner_live, parent>>
prodVars == <<ppc, pnode, pprev>>
consVars == <<cpc, c_node, c_tail, c_prev, c_ret>>
obsVars == <<lastDeq, renotified, undisturbed>>
histVars0 == <<lastRet, yielded, retCount, drops, enqSince, callsSince, obsVars>>
histVars == <<histVars0, freedBy>>
vars == <<mem, future, next_all, prev_all, next_readiness, state,
          head_all, len, tail_readiness, head_readiness, ref_count, inner_live,
          parent, woken, handles, ppc, pnode, pprev, cpc, c_node, c_tail,
          c_prev, c_ret, lastRet, yielded, retCount, drops, enqSince,
          callsSince, lastDeq, renotified, undisturbed, freedBy, fault, uaf>>

\* FuturesUnordered::new
Init ==
  /\ mem = [c \in Cells |-> IF c = Stub THEN "live" ELSE "unalloc"]
  /\ future = [c \in Cells |-> "none"]
  /\ next_all = [c \in Cells |-> Null]
  /\ prev_all = [c \in Cells |-> Null]
  /\ next_readiness = [c \in Cells |-> Null]
  /\ state = [c \in Cells |-> IF c = Stub THEN QUEUED + 1 ELSE 0]
  /\ head_all = Null
  /\ len = 0
  /\ tail_readiness = Stub
  /\ head_readiness = Stub
  /\ ref_count = 1
  /\ inner_live = TRUE
  /\ parent = "none"
  /\ woken = FALSE
  /\ handles = [n \in Nodes |-> 0]
  /\ ppc = [p \in Prods |-> "idle"]
  /\ pnode = [p \in Prods |-> Null]
  /\ pprev = [p \in Prods |-> Null]
  /\ cpc = "idle"
  /\ c_node = Null
  /\ c_tail = Null
  /\ c_prev = Null
  /\ c_ret = "none"
  /\ lastRet = "init"
  /\ yielded = [n \in Nodes |-> 0]
  /\ retCount = [v \in Values |-> 0]
  /\ drops = [n \in Nodes |-> 0]
  /\ enqSince = [n \in Nodes |-> 0]
  /\ callsSince = [n \in Nodes |-> 0]
  /\ lastDeq = "none"
  /\ renotified = {}
  /\ undisturbed = FALSE
  /\ freedBy = [n \in Nodes |-> "none"]
  /\ fault = "none"
  /\ uaf = FALSE

(* ------------------------------ helpers -------------------------------- *)
RECURSIVE SumHandles(_)
SumHandles(S) ==
  IF S = {} THEN 0
  ELSE LET n == CHOOSE x \in S : TRUE IN handles[n] + SumHandles(S \ {n})

\* handles outstanding on all nodes
TotalHandles == SumHandles(Nodes)

\* producers currently inside notify(n): each of them holds a handle of n
Busy(n) == Cardinality({p \in Prods : ppc[p] # "idle" /\ pnode[p] = n})

Inc2(k) == IF k >= 2 THEN 2 ELSE k + 1

(* --------------------------- release (578-592) ------------------------- *)
\* release with the test of the old count off by one: the node is also freed when
\* one other reference is left
release_frees_early(node) ==
  LET old_state == state[node] IN
  /\ state' = [state EXCEPT ![node] = fetch_sub_1(old_state)]
  /\ uaf' = (uaf \/ mem[node] # "live")
  /\ IF Refs(old_state) # 1 /\ Refs(old_state) # 2
       THEN /\ mem' = mem
            /\ fault' = fault
       ELSE IF future[node] # "none"
              THEN /\ mem' = mem
                   /\ fault' = "future should already be dropped"
              ELSE /\ mem' = [mem EXCEPT ![node] =
                                IF mem[node] = "live" THEN "freed" ELSE "double_freed"]
                   /\ fault' = fault

\* release(node): drop one strong reference; free the node on the last one
release(node) ==
  LET old_state == state[node] IN
  /\ state' = [state EXCEPT ![node] = fetch_sub_1(old_state)]
  /\ uaf' = (uaf \/ mem[node] # "live")
  /\ IF Refs(old_state) # 1
       THEN /\ mem' = mem
            /\ fault' = fault
       ELSE IF future[node] # "none"
              THEN /\ mem' = mem
                   /\ fault' = "future should already be dropped"
              ELSE /\ mem' = [mem EXCEPT ![node] =
                                IF mem[node] = "live" THEN "freed" ELSE "double_freed"]
                   /\ fault' = fault

\* who made the call of release that freed node
Freed(node, who) ==
  freedBy' = IF mem'[node] # mem[node] THEN [freedBy EXCEPT ![node] = who] ELSE freedBy

(* --------------------------- owner list -------------------------------- *)
\* unlink that leaves the node's own links as they are
unlink_keeps_own_links(node) ==
  LET next == next_all[node]
      prev == prev_all[node]
  IN /\ prev_all' = IF next # Null THEN [prev_all EXCEPT ![next] = prev] ELSE prev_all
     /\ next_all' = IF prev # Null THEN [next_all EXCEPT ![prev] = next] ELSE next_all
     /\ head_all' = IF prev # Null THEN head_all ELSE next

\* unlink without the `else` that advances head_all
unlink_keeps_head(node) ==
  LET next == next_all[node]
      prev == prev_all[node]
      na1 == [next_all EXCEPT ![node] = Null]
      pa1 == [prev_all EXCEPT ![node] = Null]
  IN /\ prev_all' = IF next # Null THEN [pa1 EXCEPT ![next] = prev] ELSE pa1
     /\ next_all' = IF prev # Null THEN [na1 EXCEPT ![prev] = next] ELSE na1
     /\ head_all' = head_all

\* unlink without the fix of the successor's prev_all
unlink_forgets_prev(node) ==
  LET next == next_all[node]
      prev == prev_all[node]
      na1 == [next_all EXCEPT ![node] = Null]
      pa1 == [prev_all EXCEPT ![node] = Null]
  IN /\ prev_all' = pa1
     /\ next_all' = IF prev # Null THEN [na1 EXCEPT ![prev] = next] ELSE na1
     /\ head_all' = IF prev # Null THEN head_all ELSE next

\* FuturesUnordered::unlink
unlink(node) ==
  LET next == next_all[node]
      prev == prev_all[node]
      na1 == [next_all EXCEPT ![node] = Null]
      pa1 == [prev_all EXCEPT ![node] = Null]
  IN /\ prev_all' = IF next # Null THEN [pa1 EXCEPT ![next] = prev] ELSE pa1
     /\ next_all' = IF prev # Null THEN [na1 EXCEPT ![prev] = next] ELSE na1
     /\ head_all' = IF prev # Null THEN head_all ELSE next

\* a release_node that drops the owner reference whether QUEUED was set or not
release_node_drops_ref_always(prev) == TRUE

\* release_node, line 287: the owner reference is dropped now iff QUEUED was clear
release_node_drops_ref(prev) == ~IsQueued(prev)

\* release_node that leaves the node on the owner list
release_node_keeps_links(node) ==
  /\ state' = [state EXCEPT ![node] = fetch_or_QUEUED(state[node])]
  /\ future' = [future EXCEPT ![node] = "none"]
  /\ drops' = [drops EXCEPT ![node] = @ + (IF future[node] # "none" THEN 1 ELSE 0)]
  /\ UNCHANGED <<next_all, prev_all, head_all>>

\* release_node that leaves the future in its slot
release_node_keeps_future(node) ==
  /\ state' = [state EXCEPT ![node] = fetch_or_QUEUED(state[node])]
  /\ future' = future
  /\ drops' = drops
  /\ unlink(node)

\* release_node up to its final `if`: set QUEUED, drop the future, unlink
release_node(node) ==
  /\ state' = [state EXCEPT ![node] = fetch_or_QUEUED(state[node])]
  /\ future' = [future EXCEPT ![node] = "none"]
  /\ drops' = [drops EXCEPT ![node] = @ + (IF future[node] # "none" THEN 1 ELSE 0)]
  /\ unlink(node)

(* --------------------------- readiness queue --------------------------- *)
\* Inner::enqueue up to and including head_readiness.swap(node); prev is the old head
enqueue_swap(node) ==
  /\ next_readiness' = [next_readiness EXCEPT ![node] = Null]
  /\ head_readiness' = node

\* Inner::enqueue, the final (*prev).next_readiness.store(node)
enqueue_link(prev, node) ==
  next_readiness' = [next_readiness EXCEPT ![prev] = node]

\* a dequeue that reports Empty whenever the tail is the stub
dequeue_empty_ignores_next(tail, next) == tail = Stub

\* dequeue, line 242-245: tail is the stub and nothing is linked behind it
dequeue_empty(tail, next) == tail = Stub /\ next = Null

\* dequeue, line 258: the head is not the tail, a producer is mid-enqueue
dequeue_inconsistent(head, tail) == head # tail

(* --------------------------- Inner ref count --------------------------- *)
\* UnsafeNotify::drop_raw
drop_raw ==
  /\ ref_count' = fetch_sub_1(ref_count)
  /\ inner_live' = (inner_live /\ ref_count # 1)
  /\ parent' = IF ref_count = 1 THEN "none" ELSE parent

\* ref_inc / clone_raw: abort when the old value exceeds MAX_REFS
overflows(old_size) == old_size > MAX_REFS

\* a notify that enqueues when it found QUEUED already set
notify_claims_when_queued(prev) == IsQueued(prev)

\* notify that enqueues whatever the flag was
notify_claims_always(prev) == TRUE

\* notify, line 508: this call claims the right to enqueue
notify_claims(prev) == ~IsQueued(prev)

(* ------------------------- derived structure --------------------------- *)
RECURSIVE Path(_, _, _)
\* the cells met from cell c along the links f, at most fuel of them
Path(f, c, fuel) ==
  IF c = Null \/ fuel = 0 THEN <<>> ELSE <<c>> \o Path(f, f[c], fuel - 1)

\* the owner list, from head_all along next_all
OwnerList == Path(next_all, head_all, MaxNodes + 1)
OwnerSet == {OwnerList[i] : i \in 1 .. Len(OwnerList)}

\* the readiness queue as the consumer will walk it, from tail_readiness
ReadyList == Path(next_readiness, tail_readiness, MaxNodes + 2)

NoRepeat(q) == \A i, j \in 1 .. Len(q) : q[i] = q[j] => i = j

Allocated == {n \in Nodes : mem[n] # "unalloc"}

DropPcs == {"drop_loop", "drop_rel", "drop_fields", "gone"}

\* a node whose computation is complete is linked behind the consumer's tail and
\* no producer is between the swap and the link store of enqueue
CompleteLinked ==
  /\ \E i \in 1 .. Len(ReadyList) :
       ReadyList[i] \in Nodes /\ future[ReadyList[i]] = "complete"
  /\ \A p \in Prods : ppc[p] # "link"

(* ------------------------- consumer: poll() ---------------------------- *)
\* an is_empty that always answers yes
is_empty_always == TRUE

\* is_empty, lines 188-190: len == 0
is_empty == len = 0

\* a poll() that returns on Inconsistent without notifying the current task
current_notify_missing == UNCHANGED woken

\* poll, line 346: task::current().notify()
current_notify == woken' = TRUE

\* poll() returns ret
Return(ret) ==
  /\ cpc' = "idle"
  /\ c_node' = Null
  /\ c_tail' = Null
  /\ c_prev' = Null
  /\ c_ret' = "none"
  /\ lastRet' = ret

\* dequeue returned Data(node)
Data(node) ==
  /\ cpc' = "visit"
  /\ lastDeq' = "Data"
  /\ c_node' = node
  /\ c_tail' = Null
  /\ c_prev' = Null
  /\ c_ret' = "none"

\* poll(), line 331: park registers the current task; then the loop starts
PollStart ==
  /\ fault = "none"
  /\ cpc = "idle"
  /\ parent' = "task"
  /\ woken' = FALSE
  /\ cpc' = "deq1"
  /\ renotified' = {}
  /\ undisturbed' = CompleteLinked
  /\ UNCHANGED <<freedBy, nodeVars, collVars, head_readiness, ref_count, inner_live,
                 handles, prodVars, c_node, c_tail, c_prev, c_ret, lastRet,
                 yielded, retCount, drops, enqSince, callsSince, lastDeq,
                 fault, uaf>>

\* dequeue, lines 239-256: first load of tail.next_readiness
Deq1 ==
  /\ fault = "none"
  /\ cpc = "deq1"
  /\ LET tail == tail_readiness
         next == next_readiness[tail]
     IN IF tail = Stub
          THEN IF dequeue_empty(tail, next)
                 THEN /\ Return(IF is_empty THEN "ReadyNone" ELSE "NotReady")
                      /\ lastDeq' = "Empty"
                      /\ UNCHANGED tail_readiness
                 ELSE /\ tail_readiness' = next
                      /\ c_tail' = next
                      /\ cpc' = "deq2"
                      /\ UNCHANGED <<c_node, c_prev, c_ret, lastRet, lastDeq>>
          ELSE IF next # Null
                 THEN /\ tail_readiness' = next
                      /\ Data(tail)
                      /\ UNCHANGED lastRet
                 ELSE /\ c_tail' = tail
                      /\ cpc' = "deq_head"
                      /\ UNCHANGED <<tail_readiness, c_node, c_prev, c_ret, lastRet,
                                     lastDeq>>
  /\ UNCHANGED <<freedBy, nodeVars, head_all, len, innerVars, woken, handles, prodVars,
                 yielded, retCount, drops, enqSince, callsSince, renotified,
                 fault, uaf>>
  /\ undisturbed' = (undisturbed /\ cpc' # "idle")

\* dequeue, line 249-256: the load of next.next_readiness after stepping over the stub
Deq2 ==
  /\ fault = "none"
  /\ cpc = "deq2"
  /\ LET next == next_readiness[c_tail]
     IN IF next # Null
          THEN /\ tail_readiness' = next
               /\ Data(c_tail)
          ELSE /\ cpc' = "deq_head"
               /\ UNCHANGED <<tail_readiness, c_node, c_tail, c_prev, c_ret, lastDeq>>
  /\ UNCHANGED <<freedBy, nodeVars, head_all, len, innerVars, woken, handles, prodVars,
                 lastRet, yielded, retCount, drops, enqSince, callsSince,
                 renotified, fault, uaf>>
  /\ undisturbed' = (undisturbed /\ cpc' # "idle")

\* dequeue, line 258: load of head_readiness; poll, lines 342-348 on Inconsistent
DeqHead ==
  /\ fault = "none"
  /\ cpc = "deq_head"
  /\ IF dequeue_inconsistent(head_readiness, c_tail)
       THEN /\ current_notify
            /\ Return("NotReady")
            /\ lastDeq' = "Inconsistent"
       ELSE /\ cpc' = "deq_push"
            /\ UNCHANGED <<woken, c_node, c_tail, c_prev, c_ret, lastRet, lastDeq>>
  /\ UNCHANGED <<freedBy, nodeVars, collVars, innerVars, handles, prodVars,
                 yielded, retCount, drops, enqSince, callsSince, renotified,
                 fault, uaf>>
  /\ undisturbed' = (undisturbed /\ cpc' # "idle")

\* dequeue, line 263: enqueue(stub), the swap
DeqPush ==
  /\ fault = "none"
  /\ cpc = "deq_push"
  /\ c_prev' = head_readiness
  /\ enqueue_swap(Stub)
  /\ cpc' = "deq_link"
  /\ UNCHANGED <<mem, future, next_all, prev_all, state, collVars,
                 ref_count, inner_live, parent, woken, handles, prodVars,
                 c_node, c_tail, c_ret, histVars, fault, uaf>>

\* dequeue, line 263: enqueue(stub), the store into prev
DeqLink ==
  /\ fault = "none"
  /\ cpc = "deq_link"
  /\ enqueue_link(c_prev, Stub)
  /\ cpc' = "deq_reload"
  /\ UNCHANGED <<mem, future, next_all, prev_all, state, collVars,
                 innerVars, woken, handles, prodVars,
                 c_node, c_tail, c_prev, c_ret, histVars, fault, uaf>>

\* dequeue, lines 265-272: reload tail.next_readiness after pushing the stub
DeqReload ==
  /\ fault = "none"
  /\ cpc = "deq_reload"
  /\ LET next == next_readiness[c_tail]
     IN IF next # Null
          THEN /\ tail_readiness' = next
               /\ Data(c_tail)
               /\ UNCHANGED <<woken, lastRet>>
          ELSE /\ current_notify
               /\ Return("NotReady")
               /\ lastDeq' = "Inconsistent"
               /\ UNCHANGED tail_readiness
  /\ UNCHANGED <<freedBy, nodeVars, head_all, len, innerVars, handles, prodVars,
                 yielded, retCount, drops, enqSince, callsSince, renotified,
                 fault, uaf>>
  /\ undisturbed' = (undisturbed /\ cpc' # "idle")

\* poll, lines 352-369: a stale node is released, a live one has QUEUED cleared
Visit ==
  /\ fault = "none"
  /\ cpc = "visit"
  /\ IF future[c_node] = "none"
       THEN /\ IF next_all[c_node] # Null \/ prev_all[c_node] # Null
                 THEN /\ fault' = "assertion failed: links of a stale node are null"
                      /\ UNCHANGED <<state, mem, uaf, freedBy>>
                 ELSE /\ release(c_node)
                      /\ Freed(c_node, "consumer")
            /\ cpc' = "deq1"
            /\ c_node' = Null
            /\ UNCHANGED <<enqSince, callsSince, renotified>>
       ELSE /\ state' = [state EXCEPT ![c_node] = fetch_and_not_QUEUED(state[c_node])]
            /\ fault' = IF IsQueued(state[c_node]) THEN fault
                        ELSE "assertion failed: prev & QUEUED == QUEUED"
            /\ cpc' = "polling"
            /\ enqSince' = [enqSince EXCEPT ![c_node] = 0]
            /\ callsSince' = [callsSince EXCEPT ![c_node] = 0]
            /\ UNCHANGED <<mem, uaf, c_node, freedBy, renotified>>
  /\ UNCHANGED <<future, next_all, prev_all, next_readiness, collVars,
                 innerVars, woken, handles, prodVars, c_tail, c_prev, c_ret,
                 lastRet, yielded, retCount, drops, lastDeq, undisturbed>>

\* poll, lines 394-405: the computation is polled; on NotReady the loop continues,
\* otherwise len -= 1 and release_node starts
PollFuture(res) ==
  /\ fault = "none"
  /\ cpc = "polling"
  /\ IF future[c_node] = "pending"
       THEN /\ cpc' = "deq1"
            /\ c_node' = Null
            /\ renotified' = IF IsQueued(state[c_node]) THEN renotified
                              ELSE renotified \ {c_node}
            /\ UNCHANGED <<c_ret, len, state, future, drops, next_all, prev_all,
                           head_all>>
       ELSE /\ c_ret' = res
            /\ len' = len - 1
            /\ release_node(c_node)
            /\ cpc' = IF release_node_drops_ref(state[c_node]) THEN "rel" ELSE "ret"
            /\ renotified' = renotified \ {c_node}
            /\ UNCHANGED c_node
  /\ UNCHANGED <<freedBy, mem, next_readiness, tail_readiness, innerVars, woken,
                 handles, prodVars, c_tail, c_prev, lastRet, yielded, retCount,
                 enqSince, callsSince, lastDeq, undisturbed, fault, uaf>>

\* release_node, line 292: release(node)
Rel ==
  /\ fault = "none"
  /\ cpc = "rel"
  /\ release(c_node)
  /\ Freed(c_node, "consumer")
  /\ cpc' = "ret"
  /\ UNCHANGED <<future, next_all, prev_all, next_readiness, collVars,
                 innerVars, woken, handles, prodVars, c_node, c_tail, c_prev,
                 c_ret, histVars0>>

\* poll, line 407: return Ready(Some(v)) or Err(e)
PollYield ==
  /\ fault = "none"
  /\ cpc = "ret"
  /\ yielded' = [yielded EXCEPT ![c_node] = @ + 1]
  /\ retCount' = [retCount EXCEPT ![ValueOf(c_node)] = @ + 1]
  /\ Return(c_ret)
  /\ UNCHANGED <<freedBy, nodeVars, collVars, innerVars, woken, handles, prodVars,
                 drops, enqSince, callsSince, lastDeq, renotified, fault, uaf>>
  /\ undisturbed' = FALSE

(* ------------------------- consumer: push() ---------------------------- *)
\* the node push allocates next
FreshNode == CHOOSE n \in Nodes : mem[n] = "unalloc" /\ \A m \in Nodes : mem[m] = "unalloc" => n <= m

\* push, lines 200-228: allocate the node, link it at the head of the owner list,
\* and run enqueue up to the swap of head_readiness
PushSwap ==
  /\ fault = "none"
  /\ cpc = "idle"
  /\ \E n \in Nodes : mem[n] = "unalloc"
  /\ LET n == FreshNode IN
     /\ mem' = [mem EXCEPT ![n] = "live"]
     /\ future' = [future EXCEPT ![n] = "pending"]
     /\ next_all' = [next_all EXCEPT ![n] = head_all]
     /\ prev_all' = IF head_all # Null
                      THEN [prev_all EXCEPT ![n] = Null, ![head_all] = n]
                      ELSE [prev_all EXCEPT ![n] = Null]
     /\ state' = [state EXCEPT ![n] = QUEUED + 1]
     /\ head_all' = n
     /\ c_prev' = head_readiness
     /\ enqueue_swap(n)
     /\ c_node' = n
     /\ enqSince' = [enqSince EXCEPT ![n] = 1]
  /\ cpc' = "push_link"
  /\ UNCHANGED <<freedBy, len, tail_readiness, ref_count, inner_live, parent, woken,
                 handles, prodVars, c_tail, c_ret, lastRet, yielded, retCount,
                 drops, callsSince, obsVars, fault, uaf>>

\* push, lines 228-230: the store into prev of enqueue, then len += 1
PushLink ==
  /\ fault = "none"
  /\ cpc = "push_link"
  /\ enqueue_link(c_prev, c_node)
  /\ len' = len + 1
  /\ cpc' = "idle"
  /\ c_node' = Null
  /\ c_prev' = Null
  /\ UNCHANGED <<mem, future, next_all, prev_all, state, head_all,
                 tail_readiness, innerVars, woken, handles, prodVars, c_tail,
                 c_ret, histVars, fault, uaf>>

(* ------------------------- consumer: drop() ---------------------------- *)
\* Drop, lines 430-433: release_node(head) up to its final `if`
DropNode ==
  /\ fault = "none"
  /\ cpc \in {"idle", "drop_loop"}
  /\ head_all # Null
  /\ release_node(head_all)
  /\ c_node' = head_all
  /\ cpc' = IF release_node_drops_ref(state[head_all]) THEN "drop_rel" ELSE "drop_loop"
  /\ UNCHANGED <<mem, next_readiness, len, tail_readiness, innerVars, woken,
                 handles, prodVars, c_tail, c_prev, c_ret, lastRet, yielded,
                 retCount, enqSince, callsSince, obsVars, freedBy, fault, uaf>>

\* Drop: release_node, line 292 for the node just unlinked
DropRel ==
  /\ fault = "none"
  /\ cpc = "drop_rel"
  /\ release(c_node)
  /\ Freed(c_node, "consumer")
  /\ cpc' = "drop_loop"
  /\ UNCHANGED <<future, next_all, prev_all, next_readiness, collVars,
                 innerVars, woken, handles, prodVars, c_node, c_tail, c_prev,
                 c_ret, histVars0>>

\* Drop, line 435: (*self.inner).drop_raw()
DropInner ==
  /\ fault = "none"
  /\ cpc \in {"idle", "drop_loop"}
  /\ head_all = Null
  /\ drop_raw
  /\ cpc' = "drop_fields"
  /\ c_node' = Null
  /\ UNCHANGED <<nodeVars, collVars, head_readiness, woken, handles, prodVars,
                 c_tail, c_prev, c_ret, histVars, fault, uaf>>

\* the fields are dropped after Drop::drop returns: the stub Box is freed (line 43)
\* and MyInner's own Drop runs drop_raw (lines 470-475)
DropFields ==
  /\ fault = "none"
  /\ cpc = "drop_fields"
  /\ mem' = [mem EXCEPT ![Stub] = "freed"]
  /\ drop_raw
  /\ cpc' = "gone"
  /\ UNCHANGED <<future, next_all, prev_all, next_readiness, state,
                 collVars, head_readiness, woken, handles, prodVars, c_node,
                 c_tail, c_prev, c_ret, histVars, fault, uaf>>

(* ------------------------- notifier handles ---------------------------- *)
\* a Task handle for node n comes into being: clone_raw (537-546) and ref_inc (515-526)
NewHandle(n) ==
  /\ ref_count' = fetch_add_1(ref_count)
  /\ state' = [state EXCEPT ![n] = fetch_add_1(state[n])]
  /\ fault' = IF overflows(ref_count) \/ overflows(state[n])
                THEN "refcount overflow" ELSE fault
  /\ handles' = [handles EXCEPT ![n] = @ + 1]
  /\ uaf' = (uaf \/ mem[n] # "live")

\* the computation being polled asks for the current task (inside with_notify, 394-397)
TakeHandle ==
  /\ fault = "none"
  /\ cpc = "polling"
  /\ TotalHandles < MaxHandles
  /\ NewHandle(c_node)
  /\ UNCHANGED <<mem, future, next_all, prev_all, next_readiness, collVars,
                 head_readiness, inner_live, parent, woken, prodVars, consVars,
                 histVars>>

\* some thread clones a handle it holds
CloneHandle(n) ==
  /\ fault = "none"
  /\ handles[n] > 0
  /\ TotalHandles < MaxHandles
  /\ NewHandle(n)
  /\ UNCHANGED <<mem, future, next_all, prev_all, next_readiness, collVars,
                 head_readiness, inner_live, parent, woken, prodVars, consVars,
                 histVars>>

\* some thread drops a handle it holds: ref_dec (528-533), then drop_raw (548-554)
DropHandle(n) ==
  /\ fault = "none"
  /\ handles[n] > Busy(n)
  /\ release(n)
  /\ Freed(n, "handle")
  /\ drop_raw
  /\ handles' = [handles EXCEPT ![n] = @ - 1]
  /\ UNCHANGED <<future, next_all, prev_all, next_readiness, collVars,
                 head_readiness, woken, prodVars, consVars, histVars0>>

(* ----------------------- producers: notify(id) ------------------------- *)
\* notify, lines 507-508: state.fetch_or(QUEUED)
NotifyFlag(p, n) ==
  /\ fault = "none"
  /\ ppc[p] = "idle"
  /\ \A q \in Prods : q < p => ppc[q] # "idle"
  /\ handles[n] > Busy(n)
  /\ state' = [state EXCEPT ![n] = fetch_or_QUEUED(state[n])]
  /\ callsSince' = [callsSince EXCEPT ![n] = Inc2(@)]
  /\ uaf' = (uaf \/ mem[n] # "live")
  /\ IF notify_claims(state[n])
       THEN /\ ppc' = [ppc EXCEPT ![p] = "swap"]
            /\ pnode' = [pnode EXCEPT ![p] = n]
            /\ renotified' = IF cpc = "polling" /\ c_node = n
                                THEN renotified \cup {n} ELSE renotified
       ELSE UNCHANGED <<ppc, pnode, renotified>>
  /\ UNCHANGED <<mem, future, next_all, prev_all, next_readiness, collVars,
                 innerVars, woken, handles, pprev, consVars, lastRet, yielded,
                 retCount, drops, enqSince, lastDeq, undisturbed, freedBy, fault>>

\* notify, line 509: enqueue up to the swap of head_readiness
NotifySwap(p) ==
  /\ fault = "none"
  /\ ppc[p] = "swap"
  /\ pprev' = [pprev EXCEPT ![p] = head_readiness]
  /\ enqueue_swap(pnode[p])
  /\ ppc' = [ppc EXCEPT ![p] = "link"]
  /\ enqSince' = [enqSince EXCEPT ![pnode[p]] = @ + 1]
  /\ UNCHANGED <<freedBy, mem, future, next_all, prev_all, state, collVars,
                 ref_count, inner_live, parent, woken, handles, pnode, consVars,
                 lastRet, yielded, retCount, drops, callsSince, lastDeq,
                 renotified, fault, uaf>>
  /\ undisturbed' = FALSE

\* notify, line 509: the store into prev of enqueue
NotifyLink(p) ==
  /\ fault = "none"
  /\ ppc[p] = "link"
  /\ enqueue_link(pprev[p], pnode[p])
  /\ uaf' = (uaf \/ mem[pprev[p]] # "live")
  /\ ppc' = [ppc EXCEPT ![p] = "signal"]
  /\ UNCHANGED <<mem, future, next_all, prev_all, state, collVars,
                 innerVars, woken, handles, pnode, pprev, consVars, histVars,
                 fault>>

\* notify, line 510: parent.notify() wakes the task park registered
NotifySignal(p) ==
  /\ fault = "none"
  /\ ppc[p] = "signal"
  /\ woken' = (woken \/ parent = "task")
  /\ uaf' = (uaf \/ ~inner_live)
  /\ ppc' = [ppc EXCEPT ![p] = "idle"]
  /\ pnode' = [pnode EXCEPT ![p] = Null]
  /\ pprev' = [pprev EXCEPT ![p] = Null]
  /\ UNCHANGED <<nodeVars, collVars, innerVars, handles, consVars, histVars,
                 fault>>

(* --------------------------- computations ------------------------------ *)
\* the computation of node n becomes complete: its next poll returns its value or its error
Complete(n) ==
  /\ fault = "none"
  /\ future[n] = "pending"
  /\ future' = [future EXCEPT ![n] = "complete"]
  /\ UNCHANGED <<mem, next_all, prev_all, next_readiness, state, collVars,
                 innerVars, woken, handles, prodVars, consVars, histVars, fault,
                 uaf>>

(* --------------------------- specification ----------------------------- *)
Next ==
  \/ PollStart
  \/ Deq1
  \/ Deq2
  \/ DeqHead
  \/ DeqPush
  \/ DeqLink
  \/ DeqReload
  \/ Visit
  \/ \E res \in {"ReadySome", "Err"} : PollFuture(res)
  \/ Rel
  \/ PollYield
  \/ PushSwap
  \/ PushLink
  \/ DropNode
  \/ DropRel
  \/ DropInner
  \/ DropFields
  \/ TakeHandle
  \/ \E n \in Nodes : CloneHandle(n)
  \/ \E n \in Nodes : DropHandle(n)
  \/ \E p \in Prods, n \in Nodes : NotifyFlag(p, n)
  \/ \E p \in Prods : NotifySwap(p)
  \/ \E p \in Prods : NotifyLink(p)
  \/ \E p \in Prods : NotifySignal(p)
  \/ \E n \in Nodes : Complete(n)

Spec == Init /\ [][Next]_vars

(* --------------- one node and as many handles as the word counts -------- *)
\* the most handles a node gets here: with the owner's reference the count can
\* then pass MAX_REFS
MaxClones == MAX_REFS

\* push of the first computation
PushFirst == (\A n \in Nodes : mem[n] = "unalloc") /\ PushSwap

\* some thread clones a handle it holds: ref_inc (515-526) and clone_raw (537-546)
CloneMany(n) ==
  /\ fault = "none"
  /\ handles[n] > 0
  /\ handles[n] < MaxClones
  /\ NewHandle(n)
  /\ UNCHANGED <<mem, future, next_all, prev_all, next_readiness, collVars,
                 head_readiness, inner_live, parent, woken, prodVars, consVars,
                 histVars>>

CarryNext ==
  \/ PollStart
  \/ Deq1
  \/ Deq2
  \/ DeqHead
  \/ DeqPush
  \/ DeqLink
  \/ DeqReload
  \/ Visit
  \/ \E res \in {"ReadySome", "Err"} : PollFuture(res)
  \/ Rel
  \/ PollYield
  \/ PushFirst
  \/ PushLink
  \/ TakeHandle
  \/ \E n \in Nodes : CloneMany(n)
  \/ \E n \in Nodes : DropHandle(n)
  \/ \E p \in Prods, n \in Nodes : NotifyFlag(p, n)
  \/ \E p \in Prods : NotifySwap(p)
  \/ \E p \in Prods : NotifyLink(p)
  \/ \E p \in Prods : NotifySignal(p)
  \/ \E n \in Nodes : Complete(n)

CarrySpec == Init /\ [][CarryNext]_vars

(* ------------------- the collection is never destroyed ----------------- *)
\* every step but those of Drop
LiveNext ==
  \/ PollStart
  \/ Deq1
  \/ Deq2
  \/ DeqHead
  \/ DeqPush
  \/ DeqLink
  \/ DeqReload
  \/ Visit
  \/ \E res \in {"ReadySome", "Err"} : PollFuture(res)
  \/ Rel
  \/ PollYield
  \/ PushSwap
  \/ PushLink
  \/ TakeHandle
  \/ \E n \in Nodes : CloneHandle(n)
  \/ \E n \in Nodes : DropHandle(n)
  \/ \E p \in Prods, n \in Nodes : NotifyFlag(p, n)
  \/ \E p \in Prods : NotifySwap(p)
  \/ \E p \in Prods : NotifyLink(p)
  \/ \E p \in Prods : NotifySignal(p)
  \/ \E n \in Nodes : Complete(n)

\* a call of poll() or push() that has started runs to its return
ConsumerStep ==
  \/ Deq1 \/ Deq2 \/ DeqHead \/ DeqPush \/ DeqLink \/ DeqReload
  \/ Visit
  \/ \E res \in {"ReadySome", "Err"} : PollFuture(res)
  \/ Rel
  \/ PollYield
  \/ PushLink

\* a call of notify that has claimed the node runs to its return
ProducerStep(p) == NotifySwap(p) \/ NotifyLink(p) \/ NotifySignal(p)

\* the driver owes a call of poll(): the parent task was signalled, or the last
\* poll() returned an item and the stream is polled for the next one
PollDue == woken \/ lastRet \in {"ReadySome", "Err"}

Fairness ==
  /\ WF_vars(ConsumerStep)
  /\ WF_vars(PollStart /\ PollDue)
  /\ \A p \in Prods : WF_vars(ProducerStep(p))

FairSpec == Init /\ [][LiveNext]_vars /\ Fairness

(* ------------------------------ claims --------------------------------- *)

\* C1. At-most-once yield: no computation yields twice; a computation that yielded has
\* had its payload dropped once and has left the owner set; the computation being
\* polled has never yielded; and when poll() has returned Ready(None) with the
\* collection empty, every value was returned as often as it was submitted.
C1_AtMostOnceYield ==
  /\ \A n \in Nodes : yielded[n] <= 1
  /\ \A n \in Nodes : yielded[n] = 1 =>
        /\ n \in Allocated
        /\ future[n] = "none"
        /\ drops[n] = 1
        /\ n \notin OwnerSet
  /\ cpc \in {"polling", "rel", "ret"} => yielded[c_node] = 0
  /\ cpc = "polling" => future[c_node] # "none"
  /\ (cpc = "idle" /\ lastRet = "ReadyNone" /\ len = 0) =>
        \A v \in Values :
           retCount[v] = Cardinality({n \in Allocated : ValueOf(n) = v})

\* every node was submitted, each yielded once, and poll() then returned Ready(None)
C1_Witness ==
  /\ cpc = "idle"
  /\ lastRet = "ReadyNone"
  /\ \A n \in Nodes : yielded[n] = 1

\* C3. Ref-count balance: once the collection is destroyed and every handle is dropped,
\* every node push allocated has been freed.
C3_RefCountBalance ==
  (/\ cpc = "gone"
   /\ \A n \in Nodes : handles[n] = 0
   /\ \A p \in Prods : ppc[p] = "idle")
  => \A n \in Allocated : mem[n] = "freed"

\* C4. No double release on drop: no payload is dropped twice, no node is freed twice,
\* a freed node had its payload dropped exactly once, and once the drop loop is over
\* every payload has been dropped exactly once.
C4_NoDoubleRelease ==
  /\ \A n \in Nodes : drops[n] <= 1 /\ mem[n] # "double_freed"
  /\ \A n \in Nodes : mem[n] = "freed" => drops[n] = 1 /\ future[n] = "none"
  /\ cpc \in {"drop_fields", "gone"} =>
        \A n \in Allocated : drops[n] = 1 /\ future[n] = "none"

\* the collection is gone; a node it cancelled mid-flight was notified and then freed
\* by the drop of its last handle
C4_Witness ==
  /\ cpc = "gone"
  /\ \E n \in Nodes :
        /\ yielded[n] = 0
        /\ drops[n] = 1
        /\ callsSince[n] >= 1
        /\ freedBy[n] = "handle"

\* C5. At-most-one presence: a node is enqueued at most once between two visits of the
\* consumer, the readiness queue never holds a cell twice, and once some notify call
\* on a node with a payload has got past its enqueue, exactly one enqueue happened.
C5_AtMostOnePresence ==
  /\ NoRepeat(ReadyList)
  /\ \A n \in Nodes :
        /\ enqSince[n] <= 1
        /\ (/\ future[n] # "none"
            /\ callsSince[n] >= 1
            /\ \A p \in Prods : ~(ppc[p] = "swap" /\ pnode[p] = n))
           => enqSince[n] = 1 /\ IsQueued(state[n])

\* two notify calls on the same node since its last poll, one enqueue
C5_Witness ==
  \E n \in Nodes :
     /\ future[n] # "none"
     /\ callsSince[n] = 2
     /\ enqSince[n] = 1
     /\ Busy(n) = 0

\* C6. Length matches membership: the owner list is a well-formed doubly-linked list,
\* and outside push's last step and drop, len is its length and is zero exactly when
\* head_all is null.
C6_LenMatchesOwnerSet ==
  /\ NoRepeat(OwnerList)
  /\ head_all # Null => prev_all[head_all] = Null
  /\ \A n \in OwnerSet :
        /\ next_all[n] # Null => prev_all[next_all[n]] = n
        /\ prev_all[n] # Null => next_all[prev_all[n]] = n
        /\ n \in Nodes /\ mem[n] = "live"
  /\ cpc \notin DropPcs \cup {"push_link"} =>
        /\ len = Len(OwnerList)
        /\ (len = 0) <=> (head_all = Null)

\* all nodes were pushed and one of them then left the list
C6_Witness ==
  /\ cpc = "idle"
  /\ Allocated = Nodes
  /\ len = MaxNodes - 1
  /\ \E n \in Nodes : yielded[n] = 1

\* the last reference of a freed node is never one that finds a payload
C8_State ==
  /\ fault # "future should already be dropped"
  /\ \A n \in Nodes : mem[n] \in {"freed", "double_freed"} => future[n] = "none"

\* a payload leaves its slot only in a step of the consumer inside poll() or drop
C8_Step ==
  \A n \in Nodes :
     (future[n] # "none" /\ future'[n] = "none") =>
        /\ cpc \in {"polling", "idle", "drop_loop"}
        /\ cpc' \in {"rel", "ret", "drop_rel", "drop_loop"}
        /\ drops'[n] = drops[n] + 1

\* C8. Producers never touch the payload: whenever release finds the last reference,
\* the slot is already empty (the abort is unreachable), and payloads are dropped by
\* consumer steps only.
C8_ProducersNeverTouchPayload == [](C8_State) /\ [][C8_Step]_vars

\* a node was freed by ref_dec, its payload long dropped by the consumer
C8_Witness ==
  \E n \in Nodes : freedBy[n] = "handle" /\ drops[n] = 1 /\ future[n] = "none"

(* ------------------------------- C9 ------------------------------------ *)
\* producers stalled between the head swap and the predecessor-link store
Stalled == {p \in Prods : ppc[p] = "link"}

\* this step is poll() returning because dequeue reported Empty
DeqEmptyReturn == cpc = "deq1" /\ cpc' = "idle"

\* this step is poll() returning because dequeue reported Inconsistent
DeqInconsistentReturn == cpc \in {"deq_head", "deq_reload"} /\ cpc' = "idle"

\* a stalled producer whose predecessor is the stub sitting at the consumer's tail
StalledOnStubAtTail ==
  \E p \in Stalled : pprev[p] = Stub /\ tail_readiness = Stub

\* an enqueue (of a node or of the stub) has swapped or is about to swap the head
\* and has not yet stored the link
EnqueueInFlight ==
  \/ \E p \in Prods : ppc[p] \in {"swap", "link"}
  \/ cpc \in {"push_link", "deq_link"}

\* C9 as stated: whenever a producer is stalled between the swap and the link
\* store, a poll() whose dequeue finds no node observes Inconsistent, requests
\* self-notification and returns NotReady, whatever the producer's predecessor is
C9_AlwaysInconsistent ==
  [][(Stalled # {} /\ (DeqEmptyReturn \/ DeqInconsistentReturn))
       => /\ DeqInconsistentReturn
          /\ lastDeq' = "Inconsistent"
          /\ woken'
          /\ lastRet' = "NotReady"]_vars

\* once no enqueue is in flight every queued node that still has its payload is
\* linked behind the consumer's tail (or is the node dequeue just handed over)
C9_Reachable ==
  ~EnqueueInFlight =>
    \A n \in Nodes :
      (mem[n] = "live" /\ IsQueued(state[n]) /\ future[n] # "none"
         /\ ~(cpc = "visit" /\ c_node = n))
        => \E i \in 1 .. Len(ReadyList) : ReadyList[i] = n

C9_Step ==
  (Stalled # {} /\ (DeqEmptyReturn \/ DeqInconsistentReturn))
    => IF StalledOnStubAtTail
         THEN /\ DeqEmptyReturn
              /\ lastDeq' = "Empty"
              /\ woken' = woken
              /\ lastRet' = (IF len = 0 THEN "ReadyNone" ELSE "NotReady")
         ELSE /\ DeqInconsistentReturn
              /\ lastDeq' = "Inconsistent"
              /\ woken'
              /\ lastRet' = "NotReady"

\* C9, amended: with a producer stalled between the swap and the link store, a
\* poll() whose dequeue finds no node observes Inconsistent, requests
\* self-notification and returns NotReady, except when the stalled producer's
\* predecessor is the stub at the consumer's tail: then dequeue reports Empty and
\* poll() returns without self-notification (NotReady, or Ready(None) when len
\* is 0); in both cases, once the link stores are done, the node is linked
\* behind the consumer's tail where dequeue finds it
C9_InconsistentHandling == [](C9_Reachable) /\ [][C9_Step]_vars

\* poll() has returned NotReady after Inconsistent with self-notification
\* requested, while a producer is still stalled behind a node
C9_Witness ==
  /\ cpc = "idle"
  /\ lastDeq = "Inconsistent"
  /\ lastRet = "NotReady"
  /\ woken
  /\ \E p \in Stalled : pprev[p] # Stub

(* ------------------------------- C10 ----------------------------------- *)
\* this step is poll() returning
PollReturns == cpc \in {"deq1", "deq_head", "deq_reload", "ret"} /\ cpc' = "idle"

\* C10 as stated: a node notified while its computation is being polled is
\* dequeued and polled again by the same poll() call before that call returns
C10_SameCallRepoll == cpc = "idle" => renotified = {}

\* QUEUED is cleared before the computation is polled: while a node is being
\* polled its flag is set exactly if a notify came since, and that notify has
\* enqueued the node at most once
C10_State ==
  cpc = "polling" =>
    /\ IsQueued(state[c_node]) <=> callsSince[c_node] >= 1
    /\ IsQueued(state[c_node]) => c_node \in renotified
    /\ enqSince[c_node] <= 1
    /\ enqSince[c_node] = 1 => IsQueued(state[c_node])

\* poll() returns with a node notified during its poll still waiting only when
\* it returns another node's value or error, or after Inconsistent with
\* self-notification, or after Empty while a notify (of that node or of one
\* enqueued ahead of it) has not stored its link
C10_Step ==
  (PollReturns /\ renotified # {})
    => \/ cpc = "ret" /\ c_node \notin renotified
       \/ lastDeq' = "Inconsistent" /\ woken' /\ lastRet' = "NotReady"
       \/ /\ lastDeq' = "Empty"
          /\ lastRet' = "NotReady"
          /\ \E p \in Prods : ppc[p] \in {"swap", "link"}

\* C10, amended: the consumer clears QUEUED before polling, so a notify issued
\* while the node's computation is being polled observes QUEUED clear and
\* enqueues the node exactly once; the same poll() call polls the node again
\* unless it returns earlier with another node's value or error, with NotReady
\* after Inconsistent (self-notification requested), or with NotReady after
\* Empty while a notify, of that node or of one enqueued ahead of it, has not
\* yet stored its link
C10_NotifyDuringPoll == [](C10_State) /\ [][C10_Step]_vars

\* a node notified during its poll is being polled again by the same poll()
\* call, with its computation now ready
C10_Witness ==
  /\ cpc = "polling"
  /\ c_node \in renotified
  /\ ~IsQueued(state[c_node])
  /\ future[c_node] = "complete"

(* ------------------------------- C2 ------------------------------------ *)
\* the computation of node n is complete and its notifier was fired since the
\* consumer last cleared QUEUED
CompleteAndNotified(n) ==
  future[n] = "complete" /\ IsQueued(state[n]) /\ callsSince[n] >= 1

\* C2: no wake-up is lost: under a driver that polls again whenever the parent
\* task is signalled, every computation that is complete and whose notifier was
\* fired has its value returned by some later poll()
C2_NoLostWake ==
  \A n \in Nodes : CompleteAndNotified(n) ~> (yielded[n] = 1)

(* ------------------------------- C7 ------------------------------------ *)
\* every node is submitted (no further push can occur) and each was yielded or
\* is complete with its notifier fired
AllCompleteNoSubmit ==
  /\ cpc # "push_link"
  /\ \A n \in Nodes :
       /\ mem[n] # "unalloc"
       /\ yielded[n] = 1 \/ CompleteAndNotified(n)

\* C7: drained to empty: once every submitted computation is complete with its
\* notifier fired and no further submit occurs, under a driver that polls again
\* after each parent signal, poll() eventually returns Ready(None)
C7_DrainedToEmpty == AllCompleteNoSubmit ~> (lastRet = "ReadyNone")

(* ------------------------------- C11 ----------------------------------- *)
\* nothing was ever submitted
NothingSubmitted == \A n \in Nodes : mem[n] = "unalloc"

\* a poll() returns Ready(None) exactly when its dequeue reported Empty with
\* len = 0, and then no computation is in the owner set; Empty with len > 0
\* gives NotReady
C11_Step ==
  PollReturns =>
    /\ lastRet' = "ReadyNone" <=> (DeqEmptyReturn /\ lastDeq' = "Empty" /\ len = 0)
    /\ lastRet' = "ReadyNone" => (OwnerSet = {} /\ \A n \in Nodes : future[n] = "none")
    /\ (DeqEmptyReturn /\ len > 0) => lastRet' = "NotReady"

\* the dequeue of a poll() of a collection nothing was submitted to reports Empty
\* and the poll() returns Ready(None)
C11_FirstPoll ==
  (NothingSubmitted /\ cpc = "deq1" /\ cpc' # "deq1")
    => (cpc' = "idle" /\ lastRet' = "ReadyNone")

\* C11: poll() returns Ready(None) exactly when dequeue observes Empty and
\* len = 0: the first poll() of a collection nothing was submitted to returns
\* Ready(None), Ready(None) is never returned while a computation is in the
\* owner set, and an Empty queue with len > 0 gives NotReady
C11_ReadyNoneIffEmpty ==
  /\ [](NothingSubmitted => lastRet \in {"init", "ReadyNone"})
  /\ [][C11_Step /\ C11_FirstPoll]_vars

\* poll() has returned Ready(None) after every submitted computation was yielded
C11_Witness ==
  /\ cpc = "idle"
  /\ lastRet = "ReadyNone"
  /\ lastDeq = "Empty"
  /\ len = 0
  /\ \E n \in Nodes : yielded[n] = 1

(* ------------------------------- C12 ----------------------------------- *)
\* this step is the poll of a computation returning an error
ErrStep == cpc = "polling" /\ cpc' \in {"rel", "ret"} /\ c_ret' = "Err"

\* this step is the consumer going on after a computation returned an error
ErrFollowUp == cpc \in {"rel", "ret"} /\ c_ret = "Err" /\ cpc' # cpc

\* the step leaves every node but node as it is: payload, state word, link in
\* the readiness queue, allocation
OthersUnchanged(node) ==
  \A m \in Nodes \ {node} :
    /\ future'[m] = future[m]
    /\ state'[m] = state[m]
    /\ next_readiness'[m] = next_readiness[m]
    /\ mem'[m] = mem[m]

\* the readiness queue as the consumer and the producers see it
QueueView == <<tail_readiness, head_readiness, next_readiness>>

C12_Step ==
  /\ ErrStep =>
       /\ len' = len - 1
       /\ future[c_node] # "none" /\ future'[c_node] = "none"
       /\ drops'[c_node] = drops[c_node] + 1
       /\ c_node \in OwnerSet
       /\ OwnerSet' = OwnerSet \ {c_node}
       /\ next_all'[c_node] = Null /\ prev_all'[c_node] = Null
       /\ OthersUnchanged(c_node)
       /\ QueueView' = QueueView
  /\ ErrFollowUp =>
       /\ cpc' \in {"ret", "idle"}
       /\ cpc' = "idle" => lastRet' = "Err"
       /\ OthersUnchanged(c_node)
       /\ QueueView' = QueueView
       /\ UNCHANGED <<len, future, next_all, prev_all, head_all>>

\* between the error and the return of poll() the node has no payload and is
\* off the owner list
C12_State ==
  (cpc \in {"rel", "ret"} /\ c_ret = "Err") =>
    /\ future[c_node] = "none"
    /\ c_node \notin OwnerSet
    /\ len = Len(OwnerList)

\* C12: when a polled computation returns an error, that poll() call returns
\* Err without polling any further node, len is decremented by one, the node's
\* payload is cleared and the node is unlinked from the owner set; every other
\* node, its payload, its QUEUED flag and its place in the readiness queue are
\* unchanged, so the remaining computations are still there for later polls
C12_UserError == [](C12_State) /\ [][C12_Step]_vars

\* the poll() after one that returned Err is about to return another node's value
C12_Witness ==
  /\ cpc = "ret"
  /\ c_ret = "ReadySome"
  /\ lastRet = "Err"
  /\ \E n \in Nodes \ {c_node} : yielded[n] = 1

(* ------------------------------- C13 ----------------------------------- *)
\* a call of poll() is running
InPoll ==
  cpc \in {"deq1", "deq2", "deq_head", "deq_push", "deq_link", "deq_reload",
           "visit", "polling", "rel", "ret"}

\* C13: poll() never blocks: every call of poll() returns after finitely many
\* iterations of its dequeue loop (unless the process aborts), also when
\* computations fire their own notifier during their poll and return NotReady
\* and when other threads keep notifying nodes
C13_PollReturnsEventually == InPoll ~> (cpc = "idle" \/ fault # "none")

(* ------------------------------- C14 ----------------------------------- *)
\* cell c was freed
WasFreed(c) == mem[c] \in {"freed", "double_freed"}

\* the step writes a field of cell c (a node or the stub)
Writes(c) ==
  \/ next_readiness'[c] # next_readiness[c]
  \/ c \in Nodes /\ (state'[c] # state[c] \/ future'[c] # future[c]
                       \/ next_all'[c] # next_all[c] \/ prev_all'[c] # prev_all[c])

\* C14: no use after free across destroy: no step writes a field of a node or of
\* the stub after it was freed; in particular the two stores of a notify's
\* enqueue, into the node and into the previous head, go to live cells
C14_NoUseAfterFree ==
  [][/\ \A c \in Cells : Writes(c) => ~WasFreed(c)
     /\ \A p \in Prods :
          /\ (ppc[p] = "swap" /\ ppc'[p] = "link") => ~WasFreed(pnode[p])
          /\ (ppc[p] = "link" /\ ppc'[p] = "signal") => ~WasFreed(pprev[p])]_vars

(* ------------------------------- C15 ----------------------------------- *)
\* this step is ref_inc on node n (a handle on n comes into being)
RefIncStep(n) == handles'[n] = handles[n] + 1

\* C15: ref_inc aborts only on reference-count overflow: on a node whose
\* reference count (the state word without the QUEUED bit) is below MAX_REFS it
\* adds one to the count, leaves the QUEUED bit as it is and does not abort,
\* whether QUEUED is set or clear
C15_RefIncAbortsOnlyOnOverflow ==
  [][\A n \in Nodes :
       (RefIncStep(n) /\ Refs(state[n]) < MAX_REFS /\ ref_count < MAX_REFS)
         => /\ fault' = "none"
            /\ Refs(state'[n]) = Refs(state[n]) + 1
            /\ IsQueued(state'[n]) <=> IsQueued(state[n])]_vars

(* ------------------------------- C16 ----------------------------------- *)
\* C16: the reference count never spills into the QUEUED bit: unless the
\* process aborts, no step changes the QUEUED bit of a node's state word
\* together with its count (a carry of an increment or a borrow of a
\* decrement); the bit changes only through the fetch_or of notify and
\* release_node and the fetch_and of poll, which leave the count as it is
C16_NoSpillIntoQueued ==
  [][\A n \in Nodes :
       (mem[n] # "unalloc" /\ fault' = "none"
          /\ (IsQueued(state'[n]) <=> ~IsQueued(state[n])))
         => Refs(state'[n]) = Refs(state[n])]_vars

(* ------------------------------- C17 ----------------------------------- *)
\* the cells the consumer reaches from its tail
ReadySet == {ReadyList[i] : i \in 1 .. Len(ReadyList)}

\* the cells swapped into the head whose link from the predecessor is not stored yet
Unlinked ==
  {pnode[p] : p \in {q \in Prods : ppc[q] = "link"}}
    \cup (IF cpc = "push_link" THEN {c_node} ELSE {})
    \cup (IF cpc = "deq_link" THEN {Stub} ELSE {})

\* the cells linked behind a cell of Unlinked
Hanging ==
  {c \in Cells : \E u \in Unlinked :
     \E i \in 1 .. Len(Path(next_readiness, u, MaxNodes + 2)) :
       Path(next_readiness, u, MaxNodes + 2)[i] = c}

\* a notify has set QUEUED on n and has not swapped the head yet
Claimed(n) == \E p \in Prods : ppc[p] = "swap" /\ pnode[p] = n

\* C17 as stated: a node's QUEUED flag is set if and only if the node is
\* reachable from the readiness queue, and the stub's flag is always set
C17_QueuedIffReachable ==
  /\ IsQueued(state[Stub])
  /\ \A n \in Nodes : mem[n] = "live" => (IsQueued(state[n]) <=> n \in ReadySet)

\* C17, amended: the stub's QUEUED flag is always set; a node reachable from
\* the consumer's tail has QUEUED set; a node with QUEUED set is reachable from
\* the tail, or is mid-enqueue (claimed by a notify, swapped into the head, or
\* linked behind a cell whose own link is not stored yet), or was just dequeued
\* and its flag is about to be cleared by poll, or has lost its computation
\* (release_node sets the flag for good)
C17_QueuedTracksMembership ==
  /\ IsQueued(state[Stub])
  /\ \A n \in Nodes : mem[n] = "live" =>
       /\ n \in ReadySet => IsQueued(state[n])
       /\ IsQueued(state[n]) =>
            \/ n \in ReadySet
            \/ Claimed(n)
            \/ n \in Hanging
            \/ cpc = "visit" /\ c_node = n
            \/ future[n] = "none"

\* release_node has run on a node that was not queued and that a handle still
\* references: its flag is set and it is not in the queue
C17_Witness ==
  \E n \in Nodes :
    /\ mem[n] = "live"
    /\ yielded[n] = 1
    /\ handles[n] > 0
    /\ IsQueued(state[n])
    /\ n \notin ReadySet \cup Hanging
    /\ ~Claimed(n)

(* ------------------------------- C18 ----------------------------------- *)
\* the consumer has node n in hand: dequeued and not yet cleared or released,
\* or inside release_node before its release
InHand(n) == c_node = n /\ cpc \in {"visit", "rel", "drop_rel"}

\* the reference the owner set holds and lends to the readiness queue is held
\* for n: n is on the owner list, or in the queue (claimed, swapped in, linked),
\* or in the consumer's hand
BorrowHeld(n) ==
  \/ n \in OwnerSet
  \/ n \in ReadySet \cup Hanging
  \/ Claimed(n)
  \/ InHand(n)

\* the holders of references to n
Holders(n) == (IF BorrowHeld(n) THEN 1 ELSE 0) + handles[n]

\* C18: the reference count covers every holder: a node that is in the owner
\* set, or in the readiness queue (mid-enqueue included), or referenced by an
\* outstanding handle is not freed and has a count >= 1; the count is one for
\* the owner-set/queue borrow while it is held plus the number of handles
C18_RefCountCoversHolders ==
  \A n \in Nodes :
    (mem[n] # "unalloc" /\ Holders(n) > 0) =>
      /\ mem[n] = "live"
      /\ Refs(state[n]) >= 1
      /\ Refs(state[n]) = Holders(n)

\* a released node waits in the queue for its last visit while a handle still
\* references it: the count is one for the queue plus the handles
C18_Witness ==
  \E n \in Nodes :
    /\ mem[n] = "live"
    /\ future[n] = "none"
    /\ n \notin OwnerSet
    /\ n \in ReadySet
    /\ handles[n] > 0
    /\ Refs(state[n]) = 1 + handles[n]

(* ------------------------------- C19 ----------------------------------- *)
\* no assertion of the consumer path has failed
NoAssertionFailed ==
  fault \notin {"assertion failed: links of a stale node are null",
                "assertion failed: prev & QUEUED == QUEUED"}

\* C19: the assertions of the consumer path never fail: dequeue never returns
\* the stub as Data; a dequeued node with an empty slot has both owner-set
\* links null; a dequeued node with its computation has QUEUED set when poll
\* clears it; every enqueue (push, notify, the stub in dequeue) is made on a
\* cell whose QUEUED flag is set
C19_ConsumerAssertionsHold ==
  /\ NoAssertionFailed
  /\ cpc = "visit" =>
       /\ c_node \in Nodes
       /\ future[c_node] = "none" =>
            (next_all[c_node] = Null /\ prev_all[c_node] = Null)
       /\ future[c_node] # "none" => IsQueued(state[c_node])
  /\ cpc = "push_link" => IsQueued(state[c_node])
  /\ cpc \in {"deq_push", "deq_link"} => IsQueued(state[Stub])
  /\ \A p \in Prods : ppc[p] \in {"swap", "link"} => IsQueued(state[pnode[p]])

\* dequeue has handed over a node that lost its computation while it was
\* queued, next to a node still on the owner list
C19_Witness ==
  /\ cpc = "visit"
  /\ future[c_node] = "none"
  /\ yielded[c_node] = 1
  /\ OwnerSet # {}

(* ------------------------------- C20 ----------------------------------- *)
\* release_node has run on n
Released(n) == mem[n] # "unalloc" /\ future[n] = "none"

\* n is in the readiness queue, or in the consumer's hand, of a collection whose
\* consumer is still there to visit it
AwaitsVisit(n) ==
  /\ cpc \notin DropPcs
  /\ n \in ReadySet \cup Hanging \/ Claimed(n) \/ InHand(n)

\* this step is a notify claiming node n: it will enqueue n and signal the parent
ClaimStep(n) ==
  \E p \in Prods : ppc[p] = "idle" /\ ppc'[p] = "swap" /\ pnode'[p] = n

\* a released node has had the owner reference dropped (the count is the
\* number of handles, the node is freed with the last one), or it still waits
\* in the queue for the visit of the consumer that drops it
C20_State ==
  \A n \in Nodes :
    (Released(n) /\ ~(cpc = "drop_rel" /\ c_node = n)) =>
      \/ mem[n] # "live" /\ handles[n] = 0
      \/ mem[n] = "live" /\ Refs(state[n]) = handles[n] /\ handles[n] > 0
      \/ mem[n] = "live" /\ Refs(state[n]) = handles[n] + 1 /\ AwaitsVisit(n)

\* C20: release_node blocks future enqueues: after release_node(n) has run (on
\* completion, error or destroy) no notify(n) that starts afterwards enqueues n
\* or signals the parent; the owner reference is dropped at once if QUEUED was
\* clear, and otherwise at the one visit of the consumer to the stale entry
\* that stays in the queue: exactly once on every path
C20_ReleaseNodeBlocksEnqueue ==
  /\ [](C20_State)
  /\ [][\A n \in Nodes : (Released(n) /\ ClaimStep(n)) => FALSE]_vars

(* ------------------------------- C21 ----------------------------------- *)
\* C21 as stated: the parent is signalled before the node is linked from its
\* predecessor: no notify is ever past its link store with its parent signal
\* still to come
C21_SignalBeforeLink == \A p \in Prods : ppc[p] # "signal"

\* the steps of one notify that flips QUEUED come in the order flag flip, head
\* swap, link store, parent signal
C21_Step ==
  \A p \in Prods :
    /\ ppc'[p] # ppc[p] =>
         <<ppc[p], ppc'[p]>> \in {<<"idle", "swap">>, <<"swap", "link">>,
                                  <<"link", "signal">>, <<"signal", "idle">>}
    /\ (ppc[p] = "idle" /\ ppc'[p] = "swap") =>
         /\ ~IsQueued(state[pnode'[p]])
         /\ IsQueued(state'[pnode'[p]])
         /\ woken' = woken
         /\ next_readiness' = next_readiness
    /\ (ppc[p] = "swap" /\ ppc'[p] = "link") =>
         /\ head_readiness' = pnode[p]
         /\ pprev'[p] = head_readiness
         /\ woken' = woken
    /\ (ppc[p] = "link" /\ ppc'[p] = "signal") =>
         /\ next_readiness'[pprev[p]] = pnode[p]
         /\ woken' = woken
    /\ (ppc[p] = "signal" /\ ppc'[p] = "idle") =>
         /\ woken' = (woken \/ parent = "task")
         /\ next_readiness' = next_readiness

\* the parent task is woken only by the signal of a notify that has stored its
\* link, or by the consumer notifying itself on Inconsistent
C21_Wake ==
  (woken' /\ ~woken) =>
    \/ \E p \in Prods : ppc[p] = "signal" /\ ppc'[p] = "idle"
    \/ DeqInconsistentReturn

\* C21, amended: for every notify that flips QUEUED 0->1 the flag flip happens
\* before the node is swapped into the head and linked from its predecessor,
\* and the parent task is signalled after the link store, not before it
C21_NotificationOrdering == [][C21_Step /\ C21_Wake]_vars

\* a notify has linked its node behind the consumer's tail and has not yet
\* signalled the parent
C21_Witness ==
  \E p \in Prods :
    /\ ppc[p] = "signal"
    /\ pnode[p] \in ReadySet
    /\ parent = "task"
    /\ ~woken

(* ------------------------------- C22 ----------------------------------- *)
\* C22: poll() does not give up while work is dequeuable: it returns NotReady
\* only after dequeue returned Empty with len > 0 or Inconsistent; and a call
\* at whose entry a node with a complete computation is linked in the
\* readiness queue, with no producer mid-enqueue during the call, returns
\* Ready(Some) or Err, never NotReady (nor Ready(None))
C22_NoGiveUpWhileDequeuable ==
  [][PollReturns =>
       /\ lastRet' = "NotReady" =>
            \/ DeqEmptyReturn /\ lastDeq' = "Empty" /\ len > 0
            \/ DeqInconsistentReturn /\ lastDeq' = "Inconsistent"
       /\ undisturbed => lastRet' \in {"ReadySome", "Err"}]_vars

\* the first poll() after the push of an already complete computation is about
\* to return its value
C22_Witness ==
  /\ cpc = "ret"
  /\ undisturbed
  /\ lastRet = "init"
  /\ c_ret = "ReadySome"

====
